---- MODULE Spec2Model ----
(***************************************************************************)
(* Model of markdown_server.py: the process entry point main() and the     *)
(* request handler MarkdownHandler.do_GET with the helpers it calls        *)
(* (process_mermaid_blocks, create_html_page) and the parts of the         *)
(* http.server base class its responses go through (send_error,            *)
(* send_response).                                                         *)
(*                                                                         *)
(* Text is modelled as a sequence of characters, each a one-character      *)
(* string; the backtick and the characters outside ASCII are written       *)
(* "U+xxxx".  Bytes are integers 0..255.                                   *)
(***************************************************************************)
EXTENDS Integers, Sequences, FiniteSets, TLC

VARIABLES pc, exitStatus, caught, printed, listening, fs, served, req, doc, out

vars == << pc, exitStatus, caught, printed, listening, fs, served, req, doc, out >>

----------------------------------------------------------------------------
(* Characters and their code points.                                       *)
\* The characters with code points 32..126, in order.
ASCII_PRINTABLE == <<
    " ", "!", "\"", "#", "$", "%", "&", "'", "(", ")", "*", "+", ",", "-", ".", "/", "0", "1",
    "2", "3", "4", "5", "6", "7", "8", "9", ":", ";", "<", "=", ">", "?", "@", "A", "B", "C",
    "D", "E", "F", "G", "H", "I", "J", "K", "L", "M", "N", "O", "P", "Q", "R", "S", "T", "U",
    "V", "W", "X", "Y", "Z", "[", "\\", "]", "^", "_", "U+0060", "a", "b", "c", "d", "e", "f",
    "g", "h", "i", "j", "k", "l", "m", "n", "o", "p", "q", "r", "s", "t", "u", "v", "w", "x",
    "y", "z", "{", "|", "}", "~" >>

LF == "\n"
E_ACUTE == "U+00E9"
U_UMLAUT == "U+00FC"
I_GRAVE == "U+00EC"
O_UMLAUT == "U+00F6"
PRIVATE_USE == "U+F8FF"
REPLACEMENT == "U+FFFD"

\* The code point of each character of ASCII_PRINTABLE.
AsciiCode ==
    [c \in { ASCII_PRINTABLE[i] : i \in 1..Len(ASCII_PRINTABLE) } |->
        31 + (CHOOSE i \in 1..Len(ASCII_PRINTABLE) : ASCII_PRINTABLE[i] = c)]

\* ord(c): the code point of a character.
Ord(c) ==
    CASE c = LF -> 10
      [] c = E_ACUTE -> 233
      [] c = U_UMLAUT -> 252
      [] c = I_GRAVE -> 236
      [] c = O_UMLAUT -> 246
      [] c = PRIVATE_USE -> 63743
      [] c = REPLACEMENT -> 65533
      [] OTHER -> AsciiCode[c]

\* chr(n): the character of a code point.
Chr(n) ==
    CASE n = 10 -> LF
      [] n = 233 -> E_ACUTE
      [] n = 252 -> U_UMLAUT
      [] n = 236 -> I_GRAVE
      [] n = 246 -> O_UMLAUT
      [] n = 63743 -> PRIVATE_USE
      [] n = 65533 -> REPLACEMENT
      [] OTHER -> ASCII_PRINTABLE[n - 31]

----------------------------------------------------------------------------
(* str operations used by the handler.                                     *)

\* s[i:j] of Python, 1-based and inclusive here; empty when j < i.
Slice(s, i, j) == IF j < i THEN << >> ELSE SubSeq(s, i, j)

\* str.startswith
StartsWith(s, prefix) ==
    /\ Len(s) >= Len(prefix)
    /\ Slice(s, 1, Len(prefix)) = prefix

\* str.endswith
EndsWith(s, suffix) ==
    /\ Len(s) >= Len(suffix)
    /\ Slice(s, Len(s) - Len(suffix) + 1, Len(s)) = suffix

\* sub occurs in s starting at position i
MatchAt(s, i, sub) ==
    /\ i >= 1
    /\ i + Len(sub) - 1 <= Len(s)
    /\ Slice(s, i, i + Len(sub) - 1) = sub

\* sub in s
Contains(s, sub) == \E i \in 1..(Len(s) + 1) : MatchAt(s, i, sub)

\* s.split('?')[0]: the text before the first '?'
BeforeQuery(s) ==
    LET i == CHOOSE k \in 1..Len(s) : s[k] = "?" /\ \A j \in 1..(k - 1) : s[j] # "?"
    IN  Slice(s, 1, i - 1)

----------------------------------------------------------------------------
(* UTF-8 and Latin-1, as str.encode / bytes.decode compute them.           *)

\* The UTF-8 bytes of one character.
Utf8Char(c) ==
    LET n == Ord(c)
    IN  IF n < 128 THEN << n >>
        ELSE IF n < 2048 THEN << 192 + (n \div 64), 128 + (n % 64) >>
        ELSE IF n < 65536
             THEN << 224 + (n \div 4096), 128 + ((n \div 64) % 64), 128 + (n % 64) >>
        ELSE << 240 + (n \div 262144), 128 + ((n \div 4096) % 64),
                128 + ((n \div 64) % 64), 128 + (n % 64) >>

RECURSIVE Utf8Encode(_)
\* s.encode('utf-8'): the bytes of the characters, in order (the text is
\* halved so that the evaluation stays shallow)
Utf8Encode(s) ==
    IF s = << >> THEN << >>
    ELSE IF Len(s) = 1 THEN Utf8Char(s[1])
    ELSE LET half == Len(s) \div 2
         IN  Utf8Encode(SubSeq(s, 1, half)) \o Utf8Encode(SubSeq(s, half + 1, Len(s)))

IsContinuation(b) == b >= 128 /\ b <= 191

RECURSIVE Utf8DecodeReplace(_)
\* b.decode('utf-8', 'replace') for sequences of one and two bytes; a byte
\* that starts no such sequence becomes U+FFFD.  (The request paths drawn
\* below contain no escape of a three- or four-byte sequence.)
Utf8DecodeReplace(b) ==
    IF b = << >> THEN << >>
    ELSE IF b[1] < 128 THEN << Chr(b[1]) >> \o Utf8DecodeReplace(Tail(b))
    ELSE IF b[1] >= 194 /\ b[1] <= 223 /\ Len(b) >= 2 /\ IsContinuation(b[2])
         THEN << Chr((b[1] - 192) * 64 + (b[2] - 128)) >>
              \o Utf8DecodeReplace(Tail(Tail(b)))
    ELSE << REPLACEMENT >> \o Utf8DecodeReplace(Tail(b))

\* s.encode('latin-1', 'strict') succeeds
Latin1Encodable(s) == \A i \in 1..Len(s) : Ord(s[i]) < 256

RECURSIVE IntToStr(_)
\* str(n) for n >= 0
IntToStr(n) ==
    IF n < 10 THEN << Chr(48 + n) >>
    ELSE IntToStr(n \div 10) \o << Chr(48 + (n % 10)) >>

----------------------------------------------------------------------------
(* urllib.parse.unquote                                                    *)

HEX_DIGITS == << "0", "1", "2", "3", "4", "5", "6", "7", "8", "9",
                 "A", "B", "C", "D", "E", "F" >>

LOWER_HEX == << "a", "b", "c", "d", "e", "f" >>

IsHex(c) ==
    \/ \E i \in 1..Len(HEX_DIGITS) : HEX_DIGITS[i] = c
    \/ \E i \in 1..Len(LOWER_HEX) : LOWER_HEX[i] = c

HexVal(c) ==
    IF \E i \in 1..Len(HEX_DIGITS) : HEX_DIGITS[i] = c
    THEN (CHOOSE i \in 1..Len(HEX_DIGITS) : HEX_DIGITS[i] = c) - 1
    ELSE 9 + (CHOOSE i \in 1..Len(LOWER_HEX) : LOWER_HEX[i] = c)

RECURSIVE unquote_to_bytes(_)
\* '%' followed by two hexadecimal digits is one byte; any other '%' and
\* every other character stands for itself.
unquote_to_bytes(s) ==
    IF s = << >> THEN << >>
    ELSE IF s[1] = "%" /\ Len(s) >= 3 /\ IsHex(s[2]) /\ IsHex(s[3])
         THEN << 16 * HexVal(s[2]) + HexVal(s[3]) >>
              \o unquote_to_bytes(Slice(s, 4, Len(s)))
    ELSE Utf8Char(s[1]) \o unquote_to_bytes(Tail(s))

\* unquote(string): percent-decoding, the bytes read as UTF-8 with errors
\* replaced.
unquote(s) == Utf8DecodeReplace(unquote_to_bytes(s))

----------------------------------------------------------------------------
(* The working directory: the files the process can open.                  *)

\* main(), the os.path.exists check
REQUIRED_DOCUMENT == <<
    "I", "M", "P", "L", "E", "M", "E", "N", "T", "A", "T", "I", "O", "N", ".", "m", "d" >>

\* do_GET, the path the root is replaced by
DEFAULT_DOCUMENT == <<
    "/", "I", "M", "P", "L", "E", "M", "E", "N", "T", "A", "T", "I", "O", "N", "_", "G", "U",
    "I", "D", "E", ".", "m", "d" >>

ROOT == <<
    "/" >>

MD_SUFFIX == <<
    ".", "m", "d" >>

A_MD == <<
    "a", ".", "m", "d" >>

D_MD == <<
    "d", ".", "m", "d" >>

P_MD == <<
    "p", ".", "m", "d" >>

B_MD == <<
    "b", ".", "m", "d" >>

R_MD == <<
    "U+FFFD", ".", "m", "d" >>

PLAIN_TEXT == <<
    "#", " ", "h", "i" >>

MERMAID_TEXT == <<
    "U+00E9", "\n", "U+0060", "U+0060", "U+0060", "m", "e", "r", "m", "a", "i", "d", "\n",
    "A", "\n", "U+0060", "U+0060", "U+0060" >>

Absent == [kind |-> "absent", text |-> << >>]
Directory == [kind |-> "dir", text |-> << >>]
Denied == [kind |-> "denied", text |-> << >>]
Binary == [kind |-> "binary", text |-> << >>]
TextFile(text) == [kind |-> "file", text |-> text]

\* A working directory: a.md is a document with a diagram, d.md a
\* directory, p.md unreadable, b.md not UTF-8; the two IMPLEMENTATION
\* documents and the name "U+FFFD.md" vary.
WorkingDirectory(required, guide, odd) ==
    (REQUIRED_DOCUMENT :> required) @@ (Tail(DEFAULT_DOCUMENT) :> guide)
    @@ (A_MD :> TextFile(MERMAID_TEXT)) @@ (D_MD :> Directory)
    @@ (P_MD :> Denied) @@ (B_MD :> Binary) @@ (R_MD :> odd)

Lookup(dir, name) == IF name \in DOMAIN dir THEN dir[name] ELSE Absent

\* os.path.exists
Exists(dir, name) == Lookup(dir, name).kind # "absent"

EISDIR_TEXT == <<
    "[", "E", "r", "r", "n", "o", " ", "2", "1", "]", " ", "I", "s", " ", "a", " ", "d", "i",
    "r", "e", "c", "t", "o", "r", "y", ":", " " >>

EACCES_TEXT == <<
    "[", "E", "r", "r", "n", "o", " ", "1", "3", "]", " ", "P", "e", "r", "m", "i", "s", "s",
    "i", "o", "n", " ", "d", "e", "n", "i", "e", "d", ":", " " >>

DECODE_ERROR_TEXT == <<
    "'", "u", "t", "f", "-", "8", "'", " ", "c", "o", "d", "e", "c", " ", "c", "a", "n", "'",
    "t", " ", "d", "e", "c", "o", "d", "e", " ", "b", "y", "t", "e", " ", "0", "x", "f", "f",
    " ", "i", "n", " ", "p", "o", "s", "i", "t", "i", "o", "n", " ", "0", ":", " ", "i", "n",
    "v", "a", "l", "i", "d", " ", "s", "t", "a", "r", "t", " ", "b", "y", "t", "e" >>

EPIPE_TEXT == <<
    "[", "E", "r", "r", "n", "o", " ", "3", "2", "]", " ", "B", "r", "o", "k", "e", "n", " ",
    "p", "i", "p", "e" >>

\* repr(name) of a name without quotes or control characters
Repr(name) == << "'" >> \o name \o << "'" >>

\* with open(path, 'r', encoding='utf-8') as f: f.read()
\* exc is the exception raised ("none": the text was read), description
\* is str(e).
ReadFile(dir, name) ==
    LET f == Lookup(dir, name)
    IN  CASE f.kind = "absent" ->
               [exc |-> "FileNotFoundError", text |-> << >>, description |-> << >>]
          [] f.kind = "dir" ->
               [exc |-> "IsADirectoryError", text |-> << >>,
                description |-> EISDIR_TEXT \o Repr(name)]
          [] f.kind = "denied" ->
               [exc |-> "PermissionError", text |-> << >>,
                description |-> EACCES_TEXT \o Repr(name)]
          [] f.kind = "binary" ->
               [exc |-> "UnicodeDecodeError", text |-> << >>,
                description |-> DECODE_ERROR_TEXT]
          [] OTHER -> [exc |-> "none", text |-> f.text, description |-> << >>]

----------------------------------------------------------------------------
(* process_mermaid_blocks: re.sub(pattern, replace_mermaid, content,       *)
(* flags=re.DOTALL) with pattern = r'```mermaid\n(.*?)\n```'.              *)

\* the literal text of the pattern before the group
MERMAID_OPEN == <<
    "U+0060", "U+0060", "U+0060", "m", "e", "r", "m", "a", "i", "d", "\n" >>

\* the literal text of the pattern after the group
MERMAID_CLOSE == <<
    "\n", "U+0060", "U+0060", "U+0060" >>

DIV_OPEN == <<
    "<", "d", "i", "v", " ", "c", "l", "a", "s", "s", "=", "\"", "m", "e", "r", "m", "a", "i",
    "d", "\"", ">", "\n" >>

DIV_CLOSE == <<
    "\n", "<", "/", "d", "i", "v", ">" >>

\* replace_mermaid(match), match.group(1) being mermaid_code
replace_mermaid(mermaid_code) == DIV_OPEN \o mermaid_code \o DIV_CLOSE

\* Where the text after the group of a match that starts at i begins: the
\* group (.*?) is lazy and, under DOTALL, spans newlines, so it ends at the
\* first occurrence of MERMAID_CLOSE at or after the end of MERMAID_OPEN.
\* 0 when the pattern does not match at i.
GroupEnd(s, i) ==
    IF ~MatchAt(s, i, MERMAID_OPEN) THEN 0
    ELSE LET from == i + Len(MERMAID_OPEN)
             ends == { j \in from..Len(s) : MatchAt(s, j, MERMAID_CLOSE) }
         IN  IF ends = {} THEN 0
             ELSE CHOOSE j \in ends : \A k \in ends : j <= k

RECURSIVE sub(_, _)
\* re.sub from position i on: the leftmost match at or after i is
\* replaced, the text before it is kept, and the search goes on after the
\* match.
sub(s, i) ==
    LET starts == { k \in i..Len(s) : GroupEnd(s, k) # 0 }
    IN  IF starts = {} THEN Slice(s, i, Len(s))
        ELSE LET k == CHOOSE m \in starts : \A n \in starts : m <= n
                 j == GroupEnd(s, k)
             IN  Slice(s, i, k - 1)
                 \o replace_mermaid(Slice(s, k + Len(MERMAID_OPEN), j - 1))
                 \o sub(s, j + Len(MERMAID_CLOSE))

process_mermaid_blocks(content) == sub(content, 1)

----------------------------------------------------------------------------
(* The Markdown converter and the page template.                           *)

P_OPEN == <<
    "<", "p", ">" >>

P_CLOSE == <<
    "<", "/", "p", ">" >>

\* md.convert(markdown_content) when it returns: the library's HTML for
\* the text, here a paragraph around it.
convert(markdown_content) == P_OPEN \o markdown_content \o P_CLOSE

\* The template of create_html_page around {title} and {content}; the
\* stylesheet and the scripts, which are fixed ASCII text, are left out.
PAGE_HEAD == <<
    "<", "t", "i", "t", "l", "e", ">" >>

PAGE_NAV == <<
    "<", "/", "t", "i", "t", "l", "e", ">", "<", "h", "1", ">", "U+F8FF", "U+00FC", "U+00EC",
    "U+00F6", " ", "G", "i", "t", "O", "p", "s", "<", "/", "h", "1", ">" >>

PAGE_FOOT == <<
    "<", "/", "h", "t", "m", "l", ">" >>

create_html_page(content, title) ==
    PAGE_HEAD \o title \o PAGE_NAV \o content \o PAGE_FOOT

----------------------------------------------------------------------------
(* Responses, as BaseHTTPRequestHandler writes them.                       *)

OK == <<
    "O", "K" >>

\* do_GET, the Content-Type of a rendered page
CONTENT_TYPE == <<
    "t", "e", "x", "t", "/", "h", "t", "m", "l", ";", " ", "c", "h", "a", "r", "s", "e", "t",
    "=", "u", "t", "f", "-", "8" >>

\* error_content_type of the base class
ERROR_CONTENT_TYPE == <<
    "t", "e", "x", "t", "/", "h", "t", "m", "l", ";", "c", "h", "a", "r", "s", "e", "t", "=",
    "u", "t", "f", "-", "8" >>

NOT_FOUND_PREFIX == <<
    "F", "i", "l", "e", " ", "n", "o", "t", " ", "f", "o", "u", "n", "d", ":", " " >>

ERROR_PREFIX == <<
    "E", "r", "r", "o", "r", " ", "p", "r", "o", "c", "e", "s", "s", "i", "n", "g", " ", "m",
    "a", "r", "k", "d", "o", "w", "n", ":", " " >>

\* error_message_format of the base class around %(code)d and
\* %(message)s; the explanation line, fixed text per code, is left out.
ERROR_PAGE_HEAD == <<
    "<", "p", ">", "E", "r", "r", "o", "r", " ", "c", "o", "d", "e", ":", " " >>

ERROR_PAGE_MID == <<
    "<", "/", "p", ">", "\n", "<", "p", ">", "M", "e", "s", "s", "a", "g", "e", ":", " " >>

ERROR_PAGE_FOOT == <<
    ".", "<", "/", "p", ">" >>

AMP == <<
    "&", "a", "m", "p", ";" >>

LT == <<
    "&", "l", "t", ";" >>

GT == <<
    "&", "g", "t", ";" >>

EscapeChar(c) ==
    CASE c = "&" -> AMP
      [] c = "<" -> LT
      [] c = ">" -> GT
      [] OTHER -> << c >>

RECURSIVE html_escape(_)
\* html.escape(s, quote=False)
html_escape(s) ==
    IF s = << >> THEN << >>
    ELSE IF Len(s) = 1 THEN EscapeChar(s[1])
    ELSE LET half == Len(s) \div 2
         IN  html_escape(SubSeq(s, 1, half)) \o html_escape(SubSeq(s, half + 1, Len(s)))

ErrorPage(code, message) ==
    ERROR_PAGE_HEAD \o IntToStr(code) \o ERROR_PAGE_MID \o html_escape(message)
    \o ERROR_PAGE_FOOT

\* One response: the status line with its reason phrase, the two headers
\* the handler sets, the body handed to wfile.write, and whether the
\* socket took the body.
Response(code, message, contentType, contentLength, body, delivered) ==
    [status |-> code, message |-> message, contentType |-> contentType,
     contentLength |-> contentLength, body |-> body, delivered |-> delivered]

\* send_error(code, message).  send_response_only encodes the status line
\* with encode('latin-1', 'strict') before anything is written, so a
\* message with a character above U+00FF raises UnicodeEncodeError and no
\* response is produced.
send_error(code, message, delivered) ==
    IF ~Latin1Encodable(message)
    THEN [responses |-> << >>, raised |-> "UnicodeEncodeError"]
    ELSE LET body == Utf8Encode(ErrorPage(code, message))
         IN  [responses |-> << Response(code, message, ERROR_CONTENT_TYPE,
                                        IntToStr(Len(body)), body, delivered) >>,
              raised |-> IF delivered THEN "none" ELSE "OSError"]

----------------------------------------------------------------------------
(* MarkdownHandler.do_GET                                                  *)

\* if '?' in path: path = path.split('?')[0]
strip_query(path) ==
    IF \E i \in 1..Len(path) : path[i] = "?" THEN BeforeQuery(path) ELSE path

\* default_root with the document the comment above it names
default_root_as_commented(path) ==
    IF path = ROOT THEN ROOT \o REQUIRED_DOCUMENT ELSE path

\* if path == '/': path = '/IMPLEMENTATION_GUIDE.md'
default_root(path) == IF path = ROOT THEN DEFAULT_DOCUMENT ELSE path

\* if path.startswith('/'): path = path[1:]
strip_slash(path) == IF StartsWith(path, ROOT) THEN Tail(path) ELSE path

\* is_markdown without regard to case
is_markdown_any_case(path) ==
    EndsWith(path, MD_SUFFIX) \/ EndsWith(path, << ".", "M", "D" >>)

\* if path.endswith('.md')
is_markdown(path) == EndsWith(path, MD_SUFFIX)

\* content_length counting characters: str(len(full_html))
content_length_in_characters(full_html) == IntToStr(Len(full_html))

\* str(len(full_html.encode('utf-8')))
content_length(full_html) == IntToStr(Len(Utf8Encode(full_html)))

Call(fn, arg) == [fn |-> fn, arg |-> arg]

\* What md.convert does with a document: return, or raise an exception
\* whose str() is description.
ConverterOutcomes ==
    { [raises |-> FALSE, description |-> << >>],
      [raises |-> TRUE, description |-> << >>] }

\* The try block of do_GET and its two except clauses.  converter is the
\* outcome of md.convert, writeOk whether wfile.write(body) returns, and
\* retryOk whether the socket takes the response sent after that write
\* raised.  A client stays connected at least until the body is written.
render(dir, path, converter, writeOk, retryOk) ==
    LET r == ReadFile(dir, path)
        opened == << Call("open", path) >>
    IN  IF r.exc = "FileNotFoundError"
        THEN [calls |-> opened] @@ send_error(404, NOT_FOUND_PREFIX \o path, TRUE)
        ELSE IF r.exc # "none"
        THEN [calls |-> opened]
             @@ send_error(500, ERROR_PREFIX \o r.description, TRUE)
        ELSE LET markdown_content == process_mermaid_blocks(r.text)
                 converting == opened
                     \o << Call("process_mermaid_blocks", r.text),
                           Call("convert", markdown_content) >>
             IN  IF converter.raises
                 THEN [calls |-> converting]
                      @@ send_error(500, ERROR_PREFIX \o converter.description, TRUE)
                 ELSE LET html_content == convert(markdown_content)
                          full_html == create_html_page(html_content, path)
                          page == Response(200, OK, CONTENT_TYPE,
                                           content_length(full_html),
                                           Utf8Encode(full_html), writeOk)
                          calls == converting
                              \o << Call("create_html_page", path) >>
                      IN  IF writeOk
                          THEN [calls |-> calls, responses |-> << page >>,
                                raised |-> "none"]
                          ELSE LET e == send_error(500, ERROR_PREFIX \o EPIPE_TEXT,
                                                   retryOk)
                               IN  [calls |-> calls,
                                    responses |-> << page >> \o e.responses,
                                    raised |-> e.raised]

\* do_GET for self.path = self_path.  The response of the static
\* responder (super().do_GET()) is the base class's and is not recorded.
do_GET(dir, self_path, converter, writeOk, retryOk) ==
    LET decoded == unquote(self_path)
        stripped == strip_query(decoded)
        path == strip_slash(default_root(stripped))
        request == [handled |-> TRUE, self_path |-> self_path,
                    stripped |-> stripped, path |-> path]
    IN  IF is_markdown(path)
        THEN request @@ [route |-> "markdown"]
             @@ render(dir, path, converter, writeOk, retryOk)
        ELSE request
             @@ [route |-> "static", calls |-> << Call("super().do_GET", self_path) >>,
                 responses |-> << >>, raised |-> "none"]

NoRequest ==
    [handled |-> FALSE, self_path |-> << >>, stripped |-> << >>, path |-> << >>,
     route |-> "none", calls |-> << >>, responses |-> << >>, raised |-> "none"]

----------------------------------------------------------------------------
(* The process: main() and the requests it serves.                         *)

port == 8000

\* Requests handled in one run of the model.
MaxRequests == 2

\* self.path of the requests drawn: the request target, percent-encoded.
RequestPaths ==
    \* "/"
    { << "/" >>,
    \* "/?q"
      << "/", "?", "q" >>,
    \* "/%3F"
      << "/", "%", "3", "F" >>,
    \* "/a.md"
      << "/", "a", ".", "m", "d" >>,
    \* "/a.md?x"
      << "/", "a", ".", "m", "d", "?", "x" >>,
    \* "/a.MD"
      << "/", "a", ".", "M", "D" >>,
    \* "/a.txt"
      << "/", "a", ".", "t", "x", "t" >>,
    \* "a.md"
      << "a", ".", "m", "d" >>,
    \* "/IMPLEMENTATION.md"
      << "/", "I", "M", "P", "L", "E", "M", "E", "N", "T", "A", "T", "I", "O", "N", ".",
        "m", "d" >>,
    \* "/%2Fa.md"
      << "/", "%", "2", "F", "a", ".", "m", "d" >>,
    \* "/%2F"
      << "/", "%", "2", "F" >>,
    \* "/n.md"
      << "/", "n", ".", "m", "d" >>,
    \* "/%C3%A9.md"
      << "/", "%", "C", "3", "%", "A", "9", ".", "m", "d" >>,
    \* "/a%2.md"
      << "/", "a", "%", "2", ".", "m", "d" >>,
    \* "/d.md"
      << "/", "d", ".", "m", "d" >>,
    \* "/p.md"
      << "/", "p", ".", "m", "d" >>,
    \* "/b.md"
      << "/", "b", ".", "m", "d" >>,
    \* "/%FF.md"
      << "/", "%", "F", "F", ".", "m", "d" >> }

\* What binding ("", port) does.
BindOutcomes == { "bound", "Address already in use", "Permission denied" }

Init ==
    /\ pc = "start"
    /\ exitStatus = 0
    /\ caught = "none"
    /\ printed = << >>
    /\ listening = 0
    /\ \E required \in { Absent, TextFile(PLAIN_TEXT) },
          guide \in { Absent, TextFile(PLAIN_TEXT) },
          odd \in { Absent, Directory } :
            fs = WorkingDirectory(required, guide, odd)
    /\ served = 0
    /\ req = NoRequest
    /\ doc = << >>
    /\ out = [done |-> FALSE, text |-> << >>]

\* main(): IMPLEMENTATION.md is not there; three lines are printed and
\* sys.exit(1) ends the process.
main_missing ==
    /\ pc = "start"
    /\ ~Exists(fs, REQUIRED_DOCUMENT)
    /\ printed' = << "Error: IMPLEMENTATION.md not found in current directory",
                     "Current directory:", "Available files:" >>
    /\ caught' = "SystemExit"
    /\ exitStatus' = 1
    /\ pc' = "done"
    /\ UNCHANGED << listening, fs, served, req, doc, out >>

\* main(): the document is there and TCPServer(("", port), ...) is
\* constructed.  Bound, the socket listens on the port, the banner is
\* printed and serve_forever starts; an OSError is caught by the except
\* clause, which prints and lets main return.
main_bind ==
    /\ pc = "start"
    /\ Exists(fs, REQUIRED_DOCUMENT)
    /\ \E outcome \in BindOutcomes :
         IF outcome = "bound"
         THEN /\ printed' = << "Starting Enhanced Markdown Server...",
                               "Press Ctrl+C to stop the server" >>
              /\ listening' = port
              /\ pc' = "serving"
              /\ UNCHANGED << caught, exitStatus >>
         ELSE /\ printed' = << "Error starting server:" >>
                     \o (IF outcome = "Address already in use"
                         THEN << "Port is already in use." >> ELSE << >>)
              /\ caught' = "OSError"
              /\ exitStatus' = 0
              /\ pc' = "done"
              /\ UNCHANGED listening
    /\ UNCHANGED << fs, served, req, doc, out >>

\* except KeyboardInterrupt: the with statement closes the socket, the
\* message is printed and main returns.
interrupt ==
    /\ pc = "serving"
    /\ listening' = 0
    /\ printed' = Append(printed, "Server stopped by user")
    /\ caught' = "KeyboardInterrupt"
    /\ exitStatus' = 0
    /\ pc' = "done"
    /\ UNCHANGED << fs, served, req, doc, out >>

\* serve_forever handles one GET request.  An exception that leaves do_GET
\* is reported by the server's handle_error and the loop goes on.
handle_request ==
    /\ pc = "serving"
    /\ served < MaxRequests
    /\ \E self_path \in RequestPaths, converter \in ConverterOutcomes,
          writeOk \in BOOLEAN, retryOk \in BOOLEAN :
            req' = do_GET(fs, self_path, converter, writeOk, retryOk)
    /\ served' = served + 1
    /\ UNCHANGED << pc, exitStatus, caught, printed, listening, fs, doc, out >>

Next == main_missing \/ main_bind \/ interrupt \/ handle_request

Spec == Init /\ [][Next]_vars

----------------------------------------------------------------------------
(* process_mermaid_blocks on its own, over bounded documents.              *)

\* The pieces documents are put together from.
Segments ==
    \* "U+0060U+0060U+0060mermaid\n"
    { << "U+0060", "U+0060", "U+0060", "m", "e", "r", "m", "a", "i", "d", "\n" >>,
    \* "U+0060U+0060U+0060python\n"
      << "U+0060", "U+0060", "U+0060", "p", "y", "t", "h", "o", "n", "\n" >>,
    \* "U+0060U+0060U+0060"
      << "U+0060", "U+0060", "U+0060" >>,
    \* "\n"
      << "\n" >>,
    \* "A"
      << "A" >> }

\* Pieces in a document.
MaxSegments == 4

RECURSIVE Concat(_)
Concat(ss) == IF ss = << >> THEN << >> ELSE Head(ss) \o Concat(Tail(ss))

Documents ==
    { Concat(ss) : ss \in UNION { [1..n -> Segments] : n \in 0..MaxSegments } }

InitMermaid ==
    /\ pc = "start"
    /\ exitStatus = 0
    /\ caught = "none"
    /\ printed = << >>
    /\ listening = 0
    /\ fs = WorkingDirectory(Absent, Absent, Absent)
    /\ served = 0
    /\ req = NoRequest
    /\ doc \in Documents
    /\ out = [done |-> FALSE, text |-> << >>]

convert_blocks ==
    /\ ~out.done
    /\ out' = [done |-> TRUE, text |-> process_mermaid_blocks(doc)]
    /\ UNCHANGED << pc, exitStatus, caught, printed, listening, fs, served, req,
                    doc >>

NextMermaid == convert_blocks

MermaidSpec == InitMermaid /\ [][NextMermaid]_vars

----------------------------------------------------------------------------
(* Properties of a handled request.                                        *)

GUIDE_MD == <<
    "I", "M", "P", "L", "E", "M", "E", "N", "T", "A", "T", "I", "O", "N", "_", "G", "U", "I",
    "D", "E", ".", "m", "d" >>

RendererCalls == { "open", "process_mermaid_blocks", "convert", "create_html_page" }

Called(fn) == \E i \in 1..Len(req.calls) : req.calls[i].fn = fn

\* the last three characters are '.', 'm', 'd'
EndsInMd(p) ==
    /\ Len(p) >= 3
    /\ p[Len(p) - 2] = "."
    /\ p[Len(p) - 1] = "m"
    /\ p[Len(p)] = "d"

RECURSIVE StrToInt(_)
\* the number a string of decimal digits denotes
StrToInt(digits) ==
    IF digits = << >> THEN 0
    ELSE 10 * StrToInt(Slice(digits, 1, Len(digits) - 1))
         + (Ord(digits[Len(digits)]) - 48)

\* C1: a request whose resolved path does not end in ".md" is handed to
\* the static responder and calls none of open, process_mermaid_blocks,
\* the converter and create_html_page; those are called only for a
\* resolved path that ends in ".md".
C1_NonMarkdownIsDelegated ==
    req.handled =>
        /\ ~EndsInMd(req.path) =>
              /\ req.calls = << Call("super().do_GET", req.self_path) >>
              /\ \A fn \in RendererCalls : ~Called(fn)
        /\ (\E fn \in RendererCalls : Called(fn)) => EndsInMd(req.path)

\* C1 witness: "/a.MD" was requested and went to the static responder.
C1_Witness ==
    /\ req.handled
    /\ req.path = << "a", ".", "M", "D" >>
    /\ Called("super().do_GET")

\* C2: the resolved path of every request has no leading separator.
C2_ResolvedPathIsRelative ==
    req.handled => (req.path = << >> \/ req.path[1] # "/")

C4_RootIsNever404 ==
    req.handled /\ req.stripped = << "/" >> =>
        /\ listening = port => Exists(fs, GUIDE_MD)
        /\ \A i \in 1..Len(req.responses) : req.responses[i].status # 404

\* C5: main exits with status 0 after a user interrupt and with a status
\* other than 0 after the bind failed, a diagnostic printed in both cases.
C5_ExitStatusTellsBindFailure ==
    pc = "done" =>
        /\ caught = "KeyboardInterrupt" => exitStatus = 0 /\ printed # << >>
        /\ caught = "OSError" => exitStatus # 0 /\ printed # << >>

\* C6: a request for a path that ends in ".md" and names no file gets
\* exactly one response, with status 404 and the path in its body, and the
\* renderer is not called.
C6_MissingDocumentIs404 ==
    req.handled /\ EndsInMd(req.path) /\ ~Exists(fs, req.path) =>
        /\ Len(req.responses) = 1
        /\ req.responses[1].status = 404
        /\ Contains(req.responses[1].body, Utf8Encode(req.path))
        /\ \A fn \in RendererCalls \ { "open" } : ~Called(fn)

\* C7: a request for a path that ends in ".md" whose file is there but
\* whose reading or conversion fails gets exactly one response, with
\* status 500 and a description that is not empty.
C7_OtherFailureIs500 ==
    req.handled /\ EndsInMd(req.path) /\ Exists(fs, req.path)
        /\ ~Called("create_html_page") =>
        /\ Len(req.responses) = 1
        /\ req.responses[1].status = 500
        /\ req.responses[1].message # << >>

\* C9: a 200 response carries Content-Type "text/html; charset=utf-8" and
\* a Content-Length that reads as the number of bytes of its body.
C9_ContentLengthIsByteLength ==
    req.handled =>
        \A i \in 1..Len(req.responses) :
            req.responses[i].status = 200 =>
                /\ StrToInt(req.responses[i].contentLength)
                       = Len(req.responses[i].body)
                /\ req.responses[i].contentType = CONTENT_TYPE

\* C9 witness: a page was sent whose body has bytes outside ASCII.
C9_Witness ==
    /\ req.handled
    /\ Len(req.responses) = 1
    /\ req.responses[1].status = 200
    /\ req.responses[1].delivered
    /\ \E k \in 1..Len(req.responses[1].body) : req.responses[1].body[k] >= 128

\* C10: a request on a Markdown path ends with exactly one response, of
\* status 200, 404 or 500; no second response follows a 200.
C10_ExactlyOneResponse ==
    req.handled /\ req.route = "markdown" =>
        /\ Len(req.responses) = 1
        /\ req.responses[1].status \in { 200, 404, 500 }

----------------------------------------------------------------------------
(* Properties of process_mermaid_blocks.                                   *)

FENCE == <<
    "U+0060", "U+0060", "U+0060" >>

MERMAID == <<
    "m", "e", "r", "m", "a", "i", "d" >>

DIV_TAG == <<
    "<", "d", "i", "v", " ", "c", "l", "a", "s", "s", "=", "\"", "m", "e", "r", "m", "a", "i",
    "d", "\"", ">" >>

\* occurrences of piece in s
Occurrences(s, piece) == Cardinality({ i \in 1..Len(s) : MatchAt(s, i, piece) })

\* the lines of a text
Lines(s) ==
    LET breaks == { i \in 1..Len(s) : s[i] = LF }
        starts == { 1 } \cup { i + 1 : i \in breaks }
        EndOf(b) == CHOOSE e \in (breaks \cup { Len(s) + 1 }) :
                        /\ e >= b
                        /\ \A f \in (breaks \cup { Len(s) + 1 }) : f >= b => e <= f
    IN  { << b, Slice(s, b, EndOf(b) - 1) >> : b \in starts }

\* The well-formed blocks labelled "mermaid" in a document: a line that
\* is the fence followed by the label opens a block when no block is open,
\* and the next line that is the fence alone closes it.
RECURSIVE WellFormedFrom(_, _, _, _)
WellFormedFrom(s, from, open, label) ==
    LET later == { l \in Lines(s) : l[1] >= from }
    IN  IF later = {} THEN 0
        ELSE LET l == CHOOSE m \in later : \A n \in later : m[1] <= n[1]
                 next == l[1] + Len(l[2]) + 1
             IN  IF ~open
                 THEN IF StartsWith(l[2], FENCE)
                      THEN WellFormedFrom(s, next, TRUE, Slice(l[2], 4, Len(l[2])))
                      ELSE WellFormedFrom(s, next, FALSE, label)
                 ELSE IF l[2] = FENCE
                      THEN (IF label = MERMAID THEN 1 ELSE 0)
                           + WellFormedFrom(s, next, FALSE, << >>)
                      ELSE WellFormedFrom(s, next, TRUE, label)

WellFormedMermaidBlocks(s) == WellFormedFrom(s, 1, FALSE, << >>)

\* C8: the output has one container per well-formed mermaid block of the
\* input, and so none for a mermaid fence that is never closed.
C8_OneContainerPerBlock ==
    out.done => Occurrences(out.text, DIV_TAG) = WellFormedMermaidBlocks(doc)

====
